---- MODULE Spec2Model ----
(***************************************************************************)
(* Transcript lifecycle of BriefingRoom: the interview_transcripts table,  *)
(* the reconciler fetch_and_store_transcript (transcript_service.py), the  *)
(* client merge save_transcript (api/transcripts.py), the Daily.co locator *)
(* get_daily_transcript and the WebVTT parsers.                            *)
(*                                                                         *)
(* Optional (nullable) values are sets: {} is None / SQL NULL, {x} is x.   *)
(* A WebVTT document is the sequence of lines content.split("\n") yields,  *)
(* each line a record tagged by what line.strip() is.  Plain text is the   *)
(* sequence of lines that "\n".join() joins.                               *)
(***************************************************************************)
EXTENDS Integers, Sequences, FiniteSets, Bags, TLC

\* ---------------------------------------------------------------- bounds
\* fetch-transcript requests suspended at their await at the same time
NumProcs == 2
\* store writes (each write takes one tick of the clock)
MaxClock == 3
\* entries of the transcript list Daily.co answers a locator called on its own
MaxList == 3
\* lines of the caption text handed to a parser called on its own
MaxLines == 4

\* ------------------------------------------------------- optional values
None == {}
Some(x) == {x}
Get(o) == CHOOSE x \in o : TRUE

\* ------------------------------------------------------------ WebVTT lines
\* "WEBVTT": line == "WEBVTT" or line.startswith("WEBVTT")
HeaderLine == [k |-> "header"]
\* the empty line ""
EmptyLine == [k |-> "empty"]
\* a line of whitespace only: truthy as a string, empty after strip()
SpaceLine == [k |-> "space"]
\* "HH:MM:SS.mmm --> HH:MM:SS.mmm", times in milliseconds
TimingLine(s, e) == [k |-> "timing", s |-> s, e |-> e]
\* a line that begins with a time but is no timing line ("00:00:01.000 sharp")
StampLine == [k |-> "stamp"]
\* a content line; label is "" or a speaker label the line starts with ("<label>: <body>")
TextLine(label, body) == [k |-> "text", label |-> label, body |-> body]

\* speaker labels that occur in captions, with the word and the number they are made of
SpeakerLabels == {"Speaker 0", "Speaker 1", "speaker 1", "SPEAKER 1", "Participant 1"}
LabelWord(l) ==
    CASE l \in {"Speaker 0", "Speaker 1"} -> "Speaker"
      [] l = "speaker 1" -> "speaker"
      [] l = "SPEAKER 1" -> "SPEAKER"
      [] l = "Participant 1" -> "Participant"
      [] OTHER -> ""
LabelNum(l) == IF l = "Speaker 0" THEN 0 ELSE 1

\* line.strip() == ""
IsBlankLine(line) == line.k \in {"empty", "space"}
\* re.match(r"^\d{2}:\d{2}:\d{2}\.\d{3}", line)
StartsWithTimestamp(line) == line.k \in {"timing", "stamp"}
\* `not webvtt_content`: the empty string splits into the single line ""
IsEmptyString(doc) == doc = <<EmptyLine>>
\* `not webvtt_content or not webvtt_content.strip()`
IsBlankDoc(doc) == \A i \in DOMAIN doc : IsBlankLine(doc[i])

\* ---------------------------------------------------------- caption parser
RECURSIVE TextFrom(_, _)
TextFrom(lines, i) ==
    IF i > Len(lines) THEN <<>>
    ELSE LET line == lines[i] IN
         IF line.k = "header" \/ IsBlankLine(line) THEN TextFrom(lines, i + 1)
         ELSE IF line.k = "timing"
              THEN IF i + 1 <= Len(lines)
                      /\ ~IsBlankLine(lines[i + 1])
                      /\ ~StartsWithTimestamp(lines[i + 1])
                   THEN <<lines[i + 1]>> \o TextFrom(lines, i + 2)
                   ELSE TextFrom(lines, i + 2)
              ELSE IF StartsWithTimestamp(line) THEN TextFrom(lines, i + 1)
              ELSE <<line>> \o TextFrom(lines, i + 1)

parse_webvtt_to_text(doc) == IF IsBlankDoc(doc) THEN <<>> ELSE TextFrom(doc, 1)

\* index of the first line at or after i that ends a cue's content (blank or timestamp), or Len+1
RECURSIVE CueEnd(_, _)
CueEnd(lines, i) ==
    IF i > Len(lines) THEN i
    ELSE IF IsBlankLine(lines[i]) \/ StartsWithTimestamp(lines[i]) THEN i
    ELSE CueEnd(lines, i + 1)

\* re.match(r"^(Speaker\s+\d+|Participant\s+\d+):\s*(.+)", full_text, re.IGNORECASE)
LowerWord(w) ==
    CASE w \in {"Speaker", "speaker", "SPEAKER"} -> "speaker"
      [] w \in {"Participant", "participant"} -> "participant"
      [] OTHER -> w
HasSpeakerPrefix(line) ==
    /\ line.k = "text"
    /\ line.label \in SpeakerLabels
    /\ LowerWord(LabelWord(line.label)) \in {"speaker", "participant"}

\* one segment from the content lines of a cue: " ".join(text_lines), speaker prefix split off.
\* The pattern ends in (.+): a label with nothing after it, on a cue of one line, is no prefix.
MakeSegment(text_lines, s, e) ==
    IF HasSpeakerPrefix(text_lines[1]) /\ (text_lines[1].body # "" \/ Len(text_lines) > 1)
    THEN [speaker |-> Some(text_lines[1].label),
          text |-> (IF text_lines[1].body = "" THEN <<>>
                    ELSE <<TextLine("", text_lines[1].body)>>) \o Tail(text_lines),
          start_time |-> s, end_time |-> e]
    ELSE [speaker |-> None, text |-> text_lines, start_time |-> s, end_time |-> e]

\* the loop of parse_webvtt_to_segments without the test of line 313: a cue without content
\* gives a segment too
RECURSIVE SegmentsFromKeepEmpty(_, _)
SegmentsFromKeepEmpty(lines, i) ==
    IF i > Len(lines) THEN <<>>
    ELSE LET line == lines[i] IN
         IF line.k = "timing"
         THEN LET j == CueEnd(lines, i + 1)
                  text_lines == SubSeq(lines, i + 1, j - 1)
              IN  IF text_lines # <<>>
                  THEN <<MakeSegment(text_lines, line.s, line.e)>> \o SegmentsFromKeepEmpty(lines, j)
                  ELSE <<[speaker |-> None, text |-> <<>>, start_time |-> line.s,
                          end_time |-> line.e]>> \o SegmentsFromKeepEmpty(lines, j)
         ELSE SegmentsFromKeepEmpty(lines, i + 1)

RECURSIVE SegmentsFrom(_, _)
SegmentsFrom(lines, i) ==
    IF i > Len(lines) THEN <<>>
    ELSE LET line == lines[i] IN
         IF line.k = "timing"
         THEN LET j == CueEnd(lines, i + 1)
                  text_lines == SubSeq(lines, i + 1, j - 1)
              IN  IF text_lines # <<>>
                  THEN <<MakeSegment(text_lines, line.s, line.e)>> \o SegmentsFrom(lines, j)
                  ELSE SegmentsFrom(lines, j)
         ELSE SegmentsFrom(lines, i + 1)

parse_webvtt_to_segments(doc) == IF IsBlankDoc(doc) THEN <<>> ELSE SegmentsFrom(doc, 1)

\* ------------------------------------------------------ metadata extractor
\* re.findall(timestamp_pattern, webvtt_content), in file order
Timestamps(doc) == SelectSeq(doc, LAMBDA line : line.k = "timing")

\* int(x / 1000.0) for x in milliseconds: truncation toward zero
TruncSeconds(ms) == IF ms >= 0 THEN ms \div 1000 ELSE -((-ms) \div 1000)

\* set(re.findall(r"(?:Speaker|speaker|Participant|participant)\s*(\d+)", content)): the numbers
SpeakerNumbers(doc) ==
    {LabelNum(doc[i].label) : i \in {n \in DOMAIN doc :
        /\ doc[n].k = "text"
        /\ doc[n].label \in SpeakerLabels
        /\ LabelWord(doc[n].label) \in {"Speaker", "speaker", "Participant", "participant"}}}

\* the pairs (start, end), in milliseconds, of the cue times used here whose difference as
\* doubles falls just below the whole number: 1.4 - 0.4 is 0.9999999999999999
RoundsBelow == {<<400, 1400>>}

\* int(end_seconds - start_seconds), both floats made by parse_timestamp
DurationSeconds(s, e) == TruncSeconds(e - s) - (IF <<s, e>> \in RoundsBelow THEN 1 ELSE 0)

\* extract_webvtt_metadata answering zero for what it does not find
extract_webvtt_metadata_zeroed(doc) ==
    LET ts == Timestamps(doc)
        sp == SpeakerNumbers(doc)
    IN  [duration_seconds |->
            IF ts # <<>> THEN Some(DurationSeconds(ts[1].s, ts[Len(ts)].e)) ELSE Some(0),
         participant_count |-> Some(Cardinality(sp))]

\* the metadata dictionary; an absent key is None
extract_webvtt_metadata(doc) ==
    IF IsBlankDoc(doc)
    THEN [duration_seconds |-> None, participant_count |-> None]
    ELSE LET ts == Timestamps(doc)
             sp == SpeakerNumbers(doc)
         IN  [duration_seconds |->
                 IF ts # <<>> THEN Some(DurationSeconds(ts[1].s, ts[Len(ts)].e)) ELSE None,
              participant_count |->
                 IF sp # {} THEN Some(Cardinality(sp)) ELSE None]

\* ------------------------------------------------- Daily.co transcript API
\* the interviews of the model and their rooms: room_name = f"interview-{interview_id}"
Interviews == {"a"}
RoomName(iv) == <<"interview", iv>>
\* the id Daily.co assigned to a room (GET /rooms/{room_name} -> "id")
RoomId(room_name) == <<"rid", room_name[2]>>
NoId == <<>>

\* an entry of GET /transcript: id, room_id, meeting_session_id (the tokens it is made of),
\* status and is_vtt_available; a missing id or room_id is NoId, a missing session id <<>>
Entry(id, room_id, msid, status, vtt) ==
    [id |-> id, room_id |-> room_id, meeting_session_id |-> msid,
     status |-> status, is_vtt_available |-> vtt]

\* `x in str(meeting_session_id)`
InSession(x, msid) == \E i \in DOMAIN msid : msid[i] = x

\* lines 97-108: does the entry belong to the room
Matched(transcript, room_id, room_name) ==
    IF room_id # NoId /\ transcript.room_id = room_id THEN TRUE
    ELSE IF transcript.room_id = room_name THEN TRUE
    ELSE /\ transcript.meeting_session_id # <<>>
         /\ \/ InSession(room_name, transcript.meeting_session_id)
            \/ room_id # NoId /\ InSession(room_id, transcript.meeting_session_id)

\* the loop without the preference of lines 116-118: the first entry of the room is taken
FindTranscriptFirst(list, i, room_id, room_name, transcript_obj) ==
    LET matches == {n \in i..Len(list) : Matched(list[n], room_id, room_name)} IN
    IF transcript_obj # None \/ matches = {} THEN transcript_obj
    ELSE Some(list[CHOOSE n \in matches : \A m \in matches : n <= m])

\* lines 94-123: the loop over transcripts_list; transcript_obj is None or the chosen entry
RECURSIVE FindTranscript(_, _, _, _, _)
FindTranscript(list, i, room_id, room_name, transcript_obj) ==
    IF i > Len(list) THEN transcript_obj
    ELSE IF Matched(list[i], room_id, room_name)
         THEN IF list[i].status = "t_finished" /\ list[i].is_vtt_available
              THEN Some(list[i])
              ELSE IF transcript_obj = None
                   THEN FindTranscript(list, i + 1, room_id, room_name, Some(list[i]))
                   ELSE FindTranscript(list, i + 1, room_id, room_name, transcript_obj)
         ELSE FindTranscript(list, i + 1, room_id, room_name, transcript_obj)

\* outcomes of get_daily_transcript: None, an HTTPException, or the WebVTT text; calls lists
\* the provider requests made and room is the outcome of the room lookup ("skipped" if not made)
\* notfound tells a None returned on a 404 response from a None returned on what the list holds
FetchNone(calls, room) == [kind |-> "none", calls |-> calls, room |-> room, notfound |-> FALSE]
NotFound(calls, room) == [kind |-> "none", calls |-> calls, room |-> room, notfound |-> TRUE]
FetchError(calls, room) == [kind |-> "error", calls |-> calls, room |-> room]
FetchContent(calls, room, vtt) == [kind |-> "content", calls |-> calls, room |-> room, vtt |-> vtt]

\* the HTTP outcomes of the requests of one call: "404", "error" (any other failure: another
\* HTTP status, httpx.RequestError on a network error or timeout), "nolink" (200 without a
\* link).  Requests after the first one that fails are not made; their outcome is left "ok".
NetOutcomes ==
    {net \in [list : {"ok", "404", "error"},
              room : {"ok", "404", "error"},
              access : {"ok", "404", "error", "nolink"},
              download : {"ok", "404", "error"}] :
        /\ net.list # "ok" => net.room = "ok" /\ net.access = "ok"
        /\ net.access # "ok" => net.download = "ok"}

\* get_daily_transcript taking the entry the loop chose as ready, whatever its status
get_daily_transcript_uses_handle(room_name, prov, net) ==
    IF net.list = "404" THEN NotFound(<<"list">>, "skipped")
    ELSE IF net.list # "ok" THEN FetchError(<<"list">>, "skipped")
    ELSE IF prov.transcripts = <<>> THEN FetchNone(<<"list">>, "skipped")
    ELSE LET room_id == IF net.room = "ok" THEN RoomId(room_name) ELSE NoId
             transcript_obj == FindTranscript(prov.transcripts, 1, room_id, room_name, None)
             lr == <<"list", "room">>
         IN  IF transcript_obj = None THEN FetchNone(lr, net.room)
             ELSE LET t == Get(transcript_obj) IN
                  IF t.id = NoId THEN FetchNone(lr, net.room)
                  ELSE IF net.access = "404" THEN NotFound(lr \o <<"access">>, net.room)
                  ELSE IF net.access # "ok" THEN FetchError(lr \o <<"access">>, net.room)
                  ELSE IF net.download = "404"
                       THEN NotFound(lr \o <<"access", "download">>, net.room)
                  ELSE IF net.download # "ok"
                       THEN FetchError(lr \o <<"access", "download">>, net.room)
                  ELSE FetchContent(lr \o <<"access", "download">>, net.room, prov.vtt[t.id[2]])

\* get_daily_transcript(room_name) against the provider state prov, the outcome of each of its
\* requests given by net
get_daily_transcript(room_name, prov, net) ==
    IF net.list = "404" THEN NotFound(<<"list">>, "skipped")
    ELSE IF net.list # "ok" THEN FetchError(<<"list">>, "skipped")
    ELSE IF prov.transcripts = <<>> THEN FetchNone(<<"list">>, "skipped")
    ELSE LET room_id == IF net.room = "ok" THEN RoomId(room_name) ELSE NoId
             transcript_obj == FindTranscript(prov.transcripts, 1, room_id, room_name, None)
             lr == <<"list", "room">>
         IN  IF transcript_obj = None THEN FetchNone(lr, net.room)
             ELSE LET t == Get(transcript_obj) IN
                  IF t.status # "t_finished" THEN FetchNone(lr, net.room)
                  ELSE IF ~t.is_vtt_available THEN FetchNone(lr, net.room)
                  ELSE IF t.id = NoId THEN FetchNone(lr, net.room)
                  ELSE IF net.access = "404" THEN NotFound(lr \o <<"access">>, net.room)
                  ELSE IF net.access # "ok" THEN FetchError(lr \o <<"access">>, net.room)
                  ELSE IF net.download = "404"
                       THEN NotFound(lr \o <<"access", "download">>, net.room)
                  ELSE IF net.download # "ok"
                       THEN FetchError(lr \o <<"access", "download">>, net.room)
                  ELSE FetchContent(lr \o <<"access", "download">>, net.room, prov.vtt[t.id[2]])

\* ------------------------------------------- interview_transcripts (db.py)
\* a row of the table; created_at and updated_at default to the time of the insert
Row(id, interview_id, daily_room_name, transcript_text, transcript_webvtt, transcript_data, started_at, ended_at, duration_seconds, participant_count, status, now) ==
    [id |-> id, interview_id |-> interview_id, daily_room_name |-> daily_room_name,
     transcript_text |-> transcript_text, transcript_webvtt |-> transcript_webvtt,
     transcript_data |-> transcript_data, started_at |-> started_at, ended_at |-> ended_at,
     duration_seconds |-> duration_seconds, participant_count |-> participant_count,
     status |-> status, created_at |-> now, updated_at |-> now]

\* .order("created_at", desc=True).limit(1) over the rows selected
Latest(rows) ==
    IF rows = {} THEN None
    ELSE Some(CHOOSE r \in rows : \A q \in rows : q.created_at <= r.created_at)

Rows(table) == {table[i] : i \in DOMAIN table}

get_transcript_by_interview_id(table, interview_id) ==
    Latest({r \in Rows(table) : r.interview_id = interview_id})

get_transcript_by_room_name(table, daily_room_name) ==
    Latest({r \in Rows(table) : r.daily_room_name = daily_room_name})

\* `if transcript_webvtt:` a string is stored unless it is None or ""
TruthyDoc(o) == o # None /\ ~IsEmptyString(Get(o))

\* create_transcript with the status argument dropped: the row gets the column default
create_transcript_default_status(table, now, interview_id, daily_room_name, transcript_text, transcript_webvtt, transcript_data, started_at, ended_at, duration_seconds, participant_count, status) ==
    Row(Len(table) + 1, interview_id, daily_room_name, transcript_text,
        IF TruthyDoc(transcript_webvtt) THEN transcript_webvtt ELSE None,
        transcript_data, started_at, ended_at, duration_seconds, participant_count,
        "pending", now)

\* create_transcript: the row inserted (result.data[0]); the table becomes Append(table, row)
create_transcript(table, now, interview_id, daily_room_name, transcript_text, transcript_webvtt, transcript_data, started_at, ended_at, duration_seconds, participant_count, status) ==
    Row(Len(table) + 1, interview_id, daily_room_name, transcript_text,
        IF TruthyDoc(transcript_webvtt) THEN transcript_webvtt ELSE None,
        transcript_data, started_at, ended_at, duration_seconds, participant_count,
        status, now)

\* an update that writes every column, NULL for an argument that is None
UpdOptAlways(old, arg) == arg

\* the value an update leaves in a column: the argument unless it is None
Upd(old, arg) == IF arg # None THEN Get(arg) ELSE old
UpdOpt(old, arg) == IF arg # None THEN arg ELSE old

\* update_transcript: the table after .update(update_data).eq("id", transcript_id)
update_transcript(table, now, transcript_id, transcript_text, transcript_webvtt, transcript_data, started_at, ended_at, duration_seconds, participant_count, status) ==
    [i \in DOMAIN table |->
        IF table[i].id # transcript_id THEN table[i]
        ELSE [table[i] EXCEPT
                !.updated_at = now,
                !.transcript_text = Upd(@, transcript_text),
                !.transcript_webvtt = UpdOpt(@, transcript_webvtt),
                !.transcript_data = UpdOpt(@, transcript_data),
                !.started_at = UpdOpt(@, started_at),
                !.ended_at = UpdOpt(@, ended_at),
                !.duration_seconds = UpdOpt(@, duration_seconds),
                !.participant_count = UpdOpt(@, participant_count),
                !.status = Upd(@, status)]]

\* update_transcript_status: the table after .update({"status", "updated_at"}).eq("id", ...)
update_transcript_status(table, now, transcript_id, status) ==
    [i \in DOMAIN table |->
        IF table[i].id # transcript_id THEN table[i]
        ELSE [table[i] EXCEPT !.status = status, !.updated_at = now]]

\* the row with the given id
RowById(table, id) == CHOOSE r \in Rows(table) : r.id = id

\* --------------------------------------- fetch_and_store_transcript (415-478)
\* what a handler returns: a row (200) or an HTTP error
Ok(row) == [kind |-> "ok", rec |-> row]
Err(code) == [kind |-> "error", code |-> code]

\* the short circuit taken for any stored row, completed or not
ShortCircuitAnyRow(existing_transcript) == existing_transcript # None

\* lines 416-418: return the stored row without calling the provider
ShortCircuit(existing_transcript) ==
    existing_transcript # None /\ Get(existing_transcript).status = "completed"

\* `if not webvtt_content:` None or ""
NotAvailable(fetch) ==
    fetch.kind = "none" \/ (fetch.kind = "content" /\ IsEmptyString(fetch.vtt))

\* StorePending writing the empty text along with the status of an existing row
StorePendingResetsText(table, now, existing_transcript, room_name, interview_id) ==
    IF existing_transcript # None
    THEN [table |-> update_transcript(table, now, Get(existing_transcript).id, Some(<<>>), None,
                                      None, None, None, None, None, Some("pending")),
          out |-> Ok(Get(existing_transcript))]
    ELSE LET row == create_transcript(table, now, interview_id, room_name, <<>>, None, None,
                                      None, None, None, None, "pending")
         IN  [table |-> Append(table, row), out |-> Ok(row)]

\* lines 423-435: the provider has nothing yet
StorePending(table, now, existing_transcript, room_name, interview_id) ==
    IF existing_transcript # None
    THEN [table |-> update_transcript_status(table, now, Get(existing_transcript).id, "pending"),
          out |-> Ok(Get(existing_transcript))]
    ELSE LET row == create_transcript(table, now, interview_id, room_name, <<>>, None, None,
                                      None, None, None, None, "pending")
         IN  [table |-> Append(table, row), out |-> Ok(row)]

\* lines 437-478: parse the captions and update or create the row
StoreCompleted(table, now, existing_transcript, webvtt_content, room_name, interview_id) ==
    LET transcript_text == parse_webvtt_to_text(webvtt_content)
        segments == parse_webvtt_to_segments(webvtt_content)
        metadata == extract_webvtt_metadata(webvtt_content)
        structured_transcript_data ==
            IF segments # <<>> THEN Some([segments |-> segments]) ELSE None
    IN  IF existing_transcript # None
        THEN LET id == Get(existing_transcript).id
                 t == update_transcript(table, now, id, Some(transcript_text),
                          Some(webvtt_content), structured_transcript_data, None, None,
                          metadata.duration_seconds, metadata.participant_count,
                          Some("completed"))
             IN  [table |-> t, out |-> Ok(RowById(t, id))]
        ELSE LET row == create_transcript(table, now, interview_id, room_name, transcript_text,
                            Some(webvtt_content), structured_transcript_data, None, None,
                            metadata.duration_seconds, metadata.participant_count, "completed")
             IN  [table |-> Append(table, row), out |-> Ok(row)]

\* AfterFetch with the provider error swallowed: a failed fetch is stored as "not available yet"
AfterFetchSwallowed(table, now, existing_transcript, fetch, room_name, interview_id) ==
    IF fetch.kind = "error" \/ NotAvailable(fetch)
    THEN StorePending(table, now, existing_transcript, room_name, interview_id)
    ELSE StoreCompleted(table, now, existing_transcript, fetch.vtt, room_name, interview_id)

\* AfterFetch with a 404 response raised like any other HTTP error
AfterFetchNotFoundRaises(table, now, existing_transcript, fetch, room_name, interview_id) ==
    IF fetch.kind = "error" \/ (fetch.kind = "none" /\ fetch.notfound)
    THEN [table |-> table, out |-> Err(500)]
    ELSE IF NotAvailable(fetch)
         THEN StorePending(table, now, existing_transcript, room_name, interview_id)
    ELSE StoreCompleted(table, now, existing_transcript, fetch.vtt, room_name, interview_id)

\* AfterFetch with a failed caption download taken as "not available yet"
AfterFetchDownloadSwallowed(table, now, existing_transcript, fetch, room_name, interview_id) ==
    IF fetch.kind = "error" /\ fetch.calls[Len(fetch.calls)] # "download"
    THEN [table |-> table, out |-> Err(500)]
    ELSE IF fetch.kind = "error" \/ NotAvailable(fetch)
         THEN StorePending(table, now, existing_transcript, room_name, interview_id)
    ELSE StoreCompleted(table, now, existing_transcript, fetch.vtt, room_name, interview_id)

\* lines 421-478: what the call does once get_daily_transcript has returned or raised
AfterFetch(table, now, existing_transcript, fetch, room_name, interview_id) ==
    IF fetch.kind = "error" THEN [table |-> table, out |-> Err(500)]
    ELSE IF NotAvailable(fetch)
         THEN StorePending(table, now, existing_transcript, room_name, interview_id)
    ELSE StoreCompleted(table, now, existing_transcript, fetch.vtt, room_name, interview_id)

\* ------------------------------------------------- save_transcript (189-294)
\* a segment the frontend submits; a missing speaker, participantId or text is ""
ClientSegment(speaker, participantId, text) ==
    [speaker |-> speaker, participantId |-> participantId, text |-> text]

\* lines 199-212: the lines of the plain text, segments with blank text left out
RECURSIVE ClientLines(_)
ClientLines(segments) ==
    IF segments = <<>> THEN <<>>
    ELSE IF Head(segments).text = "" THEN ClientLines(Tail(segments))
    ELSE <<TextLine(Head(segments).speaker, Head(segments).text)>> \o ClientLines(Tail(segments))

\* lines 234-245: the set of speakers and participant ids
ClientSpeakers(segments) ==
    {<<"speaker", segments[i].speaker>> : i \in {n \in DOMAIN segments : segments[n].speaker # ""}}
    \cup {<<"participant", segments[i].participantId>> :
             i \in {n \in DOMAIN segments : segments[n].participantId # ""}}

\* line 255: keep the stored row
KeepExisting(existing_transcript) ==
    /\ Get(existing_transcript).status = "completed"
    /\ Get(existing_transcript).transcript_text # <<>>

\* save_transcript without the check of lines 193-197: an empty segment list is stored
save_transcript_unvalidated(table, now, interview_id, request) ==
    LET segments == request.segments
        transcript_text == ClientLines(segments)
        duration_seconds ==
            IF request.duration_seconds # None /\ Get(request.duration_seconds) # 0
            THEN request.duration_seconds ELSE None
        speakers == ClientSpeakers(segments)
        participant_count == IF speakers # {} THEN Some(Cardinality(speakers)) ELSE None
        room_name == RoomName(interview_id)
        transcript_data == Some([segments |-> segments, source |-> request.source])
        existing_transcript == get_transcript_by_interview_id(table, interview_id)
    IN  IF existing_transcript # None
        THEN IF KeepExisting(existing_transcript)
             THEN [table |-> table, out |-> Ok(Get(existing_transcript))]
             ELSE LET id == Get(existing_transcript).id
                      t == update_transcript(table, now, id, Some(transcript_text), None,
                               transcript_data, request.started_at, request.ended_at,
                               duration_seconds, participant_count, Some("completed"))
                  IN  [table |-> t, out |-> Ok(RowById(t, id))]
        ELSE LET row == create_transcript(table, now, interview_id, room_name, transcript_text,
                            None, transcript_data, request.started_at, request.ended_at,
                            duration_seconds, participant_count, "completed")
             IN  [table |-> Append(table, row), out |-> Ok(row)]

\* the whole handler: the table it leaves and the response
save_transcript(table, now, interview_id, request) ==
    LET segments == request.segments
        transcript_text == ClientLines(segments)
        duration_seconds ==
            IF request.duration_seconds # None /\ Get(request.duration_seconds) # 0
            THEN request.duration_seconds ELSE None
        speakers == ClientSpeakers(segments)
        participant_count == IF speakers # {} THEN Some(Cardinality(speakers)) ELSE None
        room_name == RoomName(interview_id)
        transcript_data == Some([segments |-> segments, source |-> request.source])
        existing_transcript == get_transcript_by_interview_id(table, interview_id)
    IN  IF segments = <<>> THEN [table |-> table, out |-> Err(400)]
        ELSE IF existing_transcript # None
        THEN IF KeepExisting(existing_transcript)
             THEN [table |-> table, out |-> Ok(Get(existing_transcript))]
             ELSE LET id == Get(existing_transcript).id
                      t == update_transcript(table, now, id, Some(transcript_text), None,
                               transcript_data, request.started_at, request.ended_at,
                               duration_seconds, participant_count, Some("completed"))
                  IN  [table |-> t, out |-> Ok(RowById(t, id))]
        ELSE LET row == create_transcript(table, now, interview_id, room_name, transcript_text,
                            None, transcript_data, request.started_at, request.ended_at,
                            duration_seconds, participant_count, "completed")
             IN  [table |-> Append(table, row), out |-> Ok(row)]

\* --------------------------------------------- download_transcript (66-159)
\* the file a download answers with
File(content, media_type) == [kind |-> "ok", content |-> content, media_type |-> media_type]

\* the formats the query parameter admits
Formats == {"txt", "vtt", "json"}

\* download_transcript with the content checks of lines 92 and 102 left out
download_transcript_unchecked(table, interview_id, format) ==
    LET transcript == get_transcript_by_interview_id(table, interview_id) IN
    IF transcript = None THEN Err(404)
    ELSE IF format = "txt" THEN File(Get(transcript).transcript_text, "text/plain")
    ELSE IF format = "vtt"
         THEN File(IF Get(transcript).transcript_webvtt = None THEN <<>>
                   ELSE Get(Get(transcript).transcript_webvtt), "text/vtt")
    ELSE File(Get(transcript), "application/json")

\* GET /transcripts/{interview_id}/download?format=...: the response
download_transcript(table, interview_id, format) ==
    LET transcript == get_transcript_by_interview_id(table, interview_id) IN
    IF transcript = None THEN Err(404)
    ELSE IF format = "txt"
         THEN IF Get(transcript).transcript_text = <<>> THEN Err(404)
              ELSE File(Get(transcript).transcript_text, "text/plain")
    ELSE IF format = "vtt"
         THEN IF ~TruthyDoc(Get(transcript).transcript_webvtt) THEN Err(404)
              ELSE File(Get(Get(transcript).transcript_webvtt), "text/vtt")
    ELSE File(Get(transcript), "application/json")

\* ------------------------------------------------ inputs of the state machine
\* caption files the provider serves
DocTwoSpeakers ==
    <<HeaderLine, EmptyLine,
      TimingLine(0, 5000), TextLine("Speaker 0", "hello"), EmptyLine,
      TimingLine(5000, 30000), TextLine("Speaker 1", "hi")>>
DocNoSpeaker == <<HeaderLine, EmptyLine, TimingLine(1000, 2500), TextLine("", "hello")>>
DocHeaderOnly == <<HeaderLine, EmptyLine>>
DocEmptyString == <<EmptyLine>>

TranscriptId(n) == <<"tr", n>>

\* states of the provider: the transcript list and the caption file behind each transcript id
ProviderStates ==
    { \* another room finished, room a (matched by room id) still processing
      [transcripts |-> <<Entry(TranscriptId(1), RoomName("b"), <<>>, "t_finished", TRUE),
                         Entry(TranscriptId(2), RoomId(RoomName("a")), <<>>, "t_processing", FALSE)>>,
       vtt |-> <<DocNoSpeaker, DocEmptyString>>],
      \* room a finished, matched by room id or by the session id
      [transcripts |-> <<Entry(TranscriptId(1), RoomId(RoomName("a")), <<RoomName("a")>>, "t_finished", TRUE)>>,
       vtt |-> <<DocTwoSpeakers>>],
      \* room a finished with a header-only file, matched by room name
      [transcripts |-> <<Entry(TranscriptId(1), RoomName("a"), <<>>, "t_finished", TRUE)>>,
       vtt |-> <<DocHeaderOnly>>] }

\* bodies of POST /transcripts/{interview_id}/save
ClientRequests ==
    { [segments |-> <<>>, started_at |-> None, ended_at |-> None,
       duration_seconds |-> None, source |-> "local_storage"],
      [segments |-> <<ClientSegment("", "", "hello")>>, started_at |-> None, ended_at |-> None,
       duration_seconds |-> Some(0), source |-> "local_storage"],
      [segments |-> <<ClientSegment("Alice", "p1", "hello"), ClientSegment("Bob", "", "hi")>>,
       started_at |-> Some(1), ended_at |-> Some(2),
       duration_seconds |-> Some(7), source |-> "local_storage"],
      [segments |-> <<ClientSegment("Alice", "", "")>>, started_at |-> None, ended_at |-> None,
       duration_seconds |-> None, source |-> "local_storage"] }

\* ------------------------------------------------------------ state machine
VARIABLES
    table,          \* interview_transcripts: the rows in insertion order
    clock,          \* the time of the next store write
    awaiting,       \* the fetch_and_store_transcript calls suspended in `await get_daily_transcript`:
                    \* a bag of [interview_id, existing_transcript], the row each read at line 416
    firstCompleted, \* per interview: the first completed row a reconcile returned
    last,           \* the call that returned last: operation, arguments, table before its last step, response
    webvtt_content, \* the caption text handed to a parser called on its own
    parsed,         \* what that parser returned, None before the call
    daily,          \* what Daily.co answers a locator called on its own: the list and the room id
    transcript_obj  \* the entry that locator chose, None before the call

vars == <<table, clock, awaiting, firstCompleted, last, webvtt_content, parsed, daily, transcript_obj>>

\* the variables of the transcript store and its handlers, and those of the functions called on their own
storevars == <<table, clock, awaiting, firstCompleted, last>>
fnvars == <<webvtt_content, parsed, daily, transcript_obj>>

\* a call suspended at line 421
Call(interview_id, existing_transcript) ==
    [interview_id |-> interview_id, existing_transcript |-> existing_transcript]

\* what `last` keeps of a fetch: its kind, the requests made, the outcome of the room lookup,
\* whether a 404 response ended it and the text returned
NoFetch == [kind |-> "skipped", calls |-> <<>>, room |-> "skipped", notfound |-> FALSE, vtt |-> <<>>]
Seen(fetch) ==
    [kind |-> fetch.kind, calls |-> fetch.calls, room |-> fetch.room,
     notfound |-> fetch.kind = "none" /\ fetch.notfound,
     vtt |-> IF fetch.kind = "content" THEN fetch.vtt ELSE <<>>]

\* no parser or locator is called on its own
NotParsed == [fn |-> "none", out |-> <<>>]
NotLocated == [called |-> FALSE, obj |-> None]
FnIdle ==
    /\ webvtt_content = <<>>
    /\ parsed = NotParsed
    /\ daily = [transcripts_list |-> <<>>, room_id |-> NoId]
    /\ transcript_obj = NotLocated

\* the store before the first request
StoreInit ==
    /\ table = <<>>
    /\ clock = 1
    /\ awaiting = EmptyBag
    /\ firstCompleted = [iv \in Interviews |-> None]
    /\ last = [op |-> "none", iv |-> CHOOSE iv \in Interviews : TRUE, before |-> <<>>,
               existing |-> None, fetch |-> NoFetch, request |-> None, first |-> None,
               out |-> Err(0)]

Init == StoreInit /\ FnIdle

\* a reconcile call returned: remember the first completed row for the room
NoteCompleted(iv, out) ==
    IF out.kind = "ok" /\ out.rec.status = "completed" /\ firstCompleted[iv] = None
    THEN [firstCompleted EXCEPT ![iv] = Some(out.rec)]
    ELSE firstCompleted

\* fetch_and_store_transcript up to its await: read the stored row, return it if completed
ReconcileStart(iv) ==
    /\ BagCardinality(awaiting) < NumProcs
    /\ LET existing_transcript == get_transcript_by_room_name(table, RoomName(iv)) IN
       IF ShortCircuit(existing_transcript)
       THEN /\ last' = [op |-> "reconcile", iv |-> iv, before |-> table,
                        existing |-> existing_transcript, fetch |-> NoFetch, request |-> None,
                        first |-> firstCompleted[iv], out |-> Ok(Get(existing_transcript))]
            /\ firstCompleted' = NoteCompleted(iv, Ok(Get(existing_transcript)))
            /\ UNCHANGED awaiting
       ELSE /\ awaiting' = awaiting (+) SetToBag({Call(iv, existing_transcript)})
            /\ UNCHANGED <<firstCompleted, last>>
    /\ UNCHANGED <<table, clock>>
    /\ UNCHANGED fnvars

\* what get_daily_transcript can return, over the states Daily.co can be in when it is called
\* and the outcomes of its requests
Fetches(room_name) ==
    {get_daily_transcript(room_name, prov, net) : prov \in ProviderStates, net \in NetOutcomes}

\* fetch_and_store_transcript from the return of get_daily_transcript to its own return
ReconcileFinish(iv) ==
    /\ clock <= MaxClock
    /\ \E call \in BagToSet(awaiting), fetch \in Fetches(RoomName(iv)) :
       /\ call.interview_id = iv
       /\ LET r == AfterFetch(table, clock, call.existing_transcript, fetch, RoomName(iv), iv)
          IN  /\ table' = r.table
              /\ clock' = IF r.table # table THEN clock + 1 ELSE clock
              /\ last' = [op |-> "reconcile", iv |-> iv, before |-> table,
                          existing |-> call.existing_transcript, fetch |-> Seen(fetch),
                          request |-> None, first |-> firstCompleted[iv], out |-> r.out]
              /\ firstCompleted' = NoteCompleted(iv, r.out)
       /\ awaiting' = awaiting (-) SetToBag({call})
    /\ UNCHANGED fnvars

\* POST /transcripts/{interview_id}/save: the handler has no await, it runs in one step
SaveTranscript(iv, request) ==
    /\ clock <= MaxClock
    /\ LET r == save_transcript(table, clock, iv, request) IN
       /\ table' = r.table
       /\ clock' = IF r.table # table THEN clock + 1 ELSE clock
       /\ last' = [op |-> "save", iv |-> iv, before |-> table,
                   existing |-> get_transcript_by_interview_id(table, iv), fetch |-> NoFetch,
                   request |-> Some(request), first |-> None, out |-> r.out]
    /\ UNCHANGED <<awaiting, firstCompleted>>
    /\ UNCHANGED fnvars

\* GET /transcripts/{interview_id}/download: reads the table, writes nothing
Download(iv, format) ==
    /\ last' = [op |-> "download", iv |-> iv, before |-> table,
                existing |-> get_transcript_by_interview_id(table, iv), fetch |-> NoFetch,
                request |-> Some([format |-> format]), first |-> None,
                out |-> download_transcript(table, iv, format)]
    /\ UNCHANGED <<table, clock, awaiting, firstCompleted>>
    /\ UNCHANGED fnvars

Next ==
    \/ \E iv \in Interviews : ReconcileStart(iv)
    \/ \E iv \in Interviews : ReconcileFinish(iv)
    \/ \E iv \in Interviews, request \in ClientRequests : SaveTranscript(iv, request)
    \/ \E iv \in Interviews, format \in Formats : Download(iv, format)

Spec == Init /\ [][Next]_vars

\* ------------------------------------------- calls made one after another
\* fetch_and_store_transcript from call to return, no other call in between
Reconcile(iv) ==
    /\ clock <= MaxClock
    /\ LET existing_transcript == get_transcript_by_room_name(table, RoomName(iv)) IN
       IF ShortCircuit(existing_transcript)
       THEN /\ last' = [op |-> "reconcile", iv |-> iv, before |-> table,
                        existing |-> existing_transcript, fetch |-> NoFetch, request |-> None,
                        first |-> firstCompleted[iv], out |-> Ok(Get(existing_transcript))]
            /\ firstCompleted' = NoteCompleted(iv, Ok(Get(existing_transcript)))
            /\ UNCHANGED <<table, clock>>
       ELSE \E fetch \in Fetches(RoomName(iv)) :
            LET r == AfterFetch(table, clock, existing_transcript, fetch, RoomName(iv), iv)
            IN  /\ table' = r.table
                /\ clock' = IF r.table # table THEN clock + 1 ELSE clock
                /\ last' = [op |-> "reconcile", iv |-> iv, before |-> table,
                            existing |-> existing_transcript, fetch |-> Seen(fetch),
                            request |-> None, first |-> firstCompleted[iv], out |-> r.out]
                /\ firstCompleted' = NoteCompleted(iv, r.out)
    /\ UNCHANGED awaiting
    /\ UNCHANGED fnvars

SeqNext ==
    \/ \E iv \in Interviews : Reconcile(iv)
    \/ \E iv \in Interviews, request \in ClientRequests : SaveTranscript(iv, request)
    \/ \E iv \in Interviews, format \in Formats : Download(iv, format)

SpecSeq == Init /\ [][SeqNext]_vars

\* ------------------------------------------------- the parsers on their own
\* lines a caption text can be made of
CaptionLines ==
    { HeaderLine, EmptyLine, SpaceLine, TimingLine(0, 5000), TimingLine(5000, 7500),
      TimingLine(400, 1400), StampLine,
      TextLine("", "hello"), TextLine("Speaker 1", "hi"), TextLine("Speaker 1", ""),
      TextLine("Participant 1", "hi"), TextLine("SPEAKER 1", "hi") }

\* the caption texts of at most MaxLines lines, in any order
Captions == UNION {[1..n -> CaptionLines] : n \in 1..MaxLines}

ParserInit ==
    /\ StoreInit
    /\ webvtt_content \in Captions
    /\ parsed = NotParsed
    /\ daily = [transcripts_list |-> <<>>, room_id |-> NoId]
    /\ transcript_obj = NotLocated

ParseText ==
    /\ parsed' = [fn |-> "parse_webvtt_to_text", out |-> parse_webvtt_to_text(webvtt_content)]
    /\ UNCHANGED <<webvtt_content, daily, transcript_obj>>
    /\ UNCHANGED storevars

ParseSegments ==
    /\ parsed' = [fn |-> "parse_webvtt_to_segments",
                  out |-> parse_webvtt_to_segments(webvtt_content)]
    /\ UNCHANGED <<webvtt_content, daily, transcript_obj>>
    /\ UNCHANGED storevars

ExtractMetadata ==
    /\ parsed' = [fn |-> "extract_webvtt_metadata",
                  out |-> extract_webvtt_metadata(webvtt_content)]
    /\ UNCHANGED <<webvtt_content, daily, transcript_obj>>
    /\ UNCHANGED storevars

ParserNext == ParseText \/ ParseSegments \/ ExtractMetadata

SpecParser == ParserInit /\ [][ParserNext]_vars

\* ------------------------------------------------- the locator on its own
\* the room the locator is asked for
LocatedRoom == RoomName("a")

\* entries GET /transcript can list: of the room by its id, by its name or by the session id,
\* ready or not, and of another room
ListEntries ==
    { Entry(TranscriptId(1), RoomId(LocatedRoom), <<>>, "t_finished", TRUE),
      Entry(TranscriptId(2), LocatedRoom, <<>>, "t_processing", FALSE),
      Entry(TranscriptId(3), NoId, <<LocatedRoom>>, "t_finished", FALSE),
      Entry(TranscriptId(4), RoomName("b"), <<>>, "t_finished", TRUE),
      Entry(TranscriptId(5), LocatedRoom, <<>>, "t_finished", TRUE),
      Entry(TranscriptId(6), NoId, <<LocatedRoom>>, "t_finished", TRUE) }

\* the lists of at most MaxList entries
TranscriptLists == UNION {[1..n -> ListEntries] : n \in 0..MaxList}

\* Daily.co answers with any list; the room lookup gave the room's id or failed
LocatorInit ==
    /\ StoreInit
    /\ webvtt_content = <<>>
    /\ parsed = NotParsed
    /\ daily \in [transcripts_list : TranscriptLists, room_id : {RoomId(LocatedRoom), NoId}]
    /\ transcript_obj = NotLocated

\* lines 93-123 of get_daily_transcript
Locate ==
    /\ transcript_obj' =
          [called |-> TRUE,
           obj |-> FindTranscript(daily.transcripts_list, 1, daily.room_id, LocatedRoom, None)]
    /\ UNCHANGED <<daily, webvtt_content, parsed>>
    /\ UNCHANGED storevars

LocatorNext == Locate

SpecLocator == LocatorInit /\ [][LocatorNext]_vars

\* ------------------------------------------- reconcile against a listed provider state
\* the caption file behind each transcript id of ListEntries
ListedFiles ==
    <<DocTwoSpeakers, DocNoSpeaker, DocNoSpeaker, DocNoSpeaker, DocHeaderOnly, DocNoSpeaker>>

\* the provider as `daily` describes it
Listed == [transcripts |-> daily.transcripts_list, vtt |-> ListedFiles]

\* fetch_and_store_transcript from call to return while Daily.co lists daily.transcripts_list;
\* the room lookup gives the room's id exactly when daily.room_id holds it
ReconcileListed(iv) ==
    /\ clock <= MaxClock
    /\ LET existing_transcript == get_transcript_by_room_name(table, RoomName(iv)) IN
       IF ShortCircuit(existing_transcript)
       THEN /\ last' = [op |-> "reconcile", iv |-> iv, before |-> table,
                        existing |-> existing_transcript, fetch |-> NoFetch, request |-> None,
                        first |-> firstCompleted[iv], out |-> Ok(Get(existing_transcript))]
            /\ firstCompleted' = NoteCompleted(iv, Ok(Get(existing_transcript)))
            /\ UNCHANGED <<table, clock>>
       ELSE \E net \in NetOutcomes :
            /\ (net.room = "ok") = (daily.room_id # NoId)
            /\ LET fetch == get_daily_transcript(RoomName(iv), Listed, net)
                   r == AfterFetch(table, clock, existing_transcript, fetch, RoomName(iv), iv)
               IN  /\ table' = r.table
                   /\ clock' = IF r.table # table THEN clock + 1 ELSE clock
                   /\ last' = [op |-> "reconcile", iv |-> iv, before |-> table,
                               existing |-> existing_transcript, fetch |-> Seen(fetch),
                               request |-> None, first |-> firstCompleted[iv], out |-> r.out]
                   /\ firstCompleted' = NoteCompleted(iv, r.out)
    /\ UNCHANGED awaiting
    /\ UNCHANGED fnvars

FetchNext == \E iv \in Interviews : ReconcileListed(iv)

SpecFetch == LocatorInit /\ [][FetchNext]_vars

\* ------------------------------------------- repeated reconciles while Daily.co gets ready
\* the caption files Daily.co may hold for the room: with a cue, a header only
ReadyFiles == {DocNoSpeaker, DocHeaderOnly}

\* the room's entry of GET /transcript while the transcript is processed and once it is done
Processing == Entry(TranscriptId(1), RoomId(LocatedRoom), <<>>, "t_processing", FALSE)
Finished == Entry(TranscriptId(1), RoomId(LocatedRoom), <<>>, "t_finished", TRUE)

\* Daily.co lists the room's transcript as in process, and its requests may fail; the store
\* is empty; webvtt_content is the caption file the transcript will have
LiveInit ==
    /\ StoreInit
    /\ webvtt_content \in ReadyFiles
    /\ parsed = NotParsed
    /\ daily = [transcripts_list |-> <<Processing>>, room_id |-> RoomId(LocatedRoom),
                reachable |-> FALSE]
    /\ transcript_obj = NotLocated

\* every request of a call answered 200
AllOk == [list |-> "ok", room |-> "ok", access |-> "ok", download |-> "ok"]

\* what the requests of a call may get while Daily.co is hard to reach: all answered, the list
\* request failing, the caption download answered 404
UnreliableNet == {AllOk, [AllOk EXCEPT !.list = "error"], [AllOk EXCEPT !.download = "404"]}

\* a call in flight whose get_daily_transcript has its result, not yet resumed
Answered(call, fetch) ==
    [interview_id |-> call.interview_id, existing_transcript |-> call.existing_transcript,
     fetch |-> fetch]
IsAnswered(call) == "fetch" \in DOMAIN call

\* the requests of a call in flight are answered from the state Daily.co is in now
ProviderAnswers(iv) ==
    /\ \E call \in BagToSet(awaiting) :
       /\ ~IsAnswered(call)
       /\ call.interview_id = iv
       /\ \E net \in (IF daily.reachable THEN {AllOk} ELSE UnreliableNet) :
          LET prov == [transcripts |-> daily.transcripts_list, vtt |-> <<webvtt_content>>]
              fetch == get_daily_transcript(RoomName(iv), prov, net)
          IN  awaiting' = (awaiting (-) SetToBag({call})) (+) SetToBag({Answered(call, fetch)})
    /\ UNCHANGED <<table, clock, firstCompleted, last>>
    /\ UNCHANGED fnvars

\* fetch_and_store_transcript resumes with the result and runs to its return; time stamps
\* later than MaxClock + 1 are not told apart, and no history of the call is kept
Return(iv) ==
    /\ \E call \in BagToSet(awaiting) :
       /\ IsAnswered(call)
       /\ call.interview_id = iv
       /\ LET r == AfterFetch(table, clock, call.existing_transcript, call.fetch,
                              RoomName(iv), iv)
          IN  /\ table' = r.table
              /\ clock' = IF r.table # table /\ clock <= MaxClock THEN clock + 1 ELSE clock
       /\ awaiting' = awaiting (-) SetToBag({call})
    /\ UNCHANGED <<last, firstCompleted>>
    /\ UNCHANGED fnvars

\* Daily.co finishes the transcript of the room: listed as t_finished with its file, for good
ProviderFinishes ==
    /\ daily.transcripts_list # <<Finished>>
    /\ daily' = [daily EXCEPT !.transcripts_list = <<Finished>>]
    /\ UNCHANGED <<webvtt_content, parsed, transcript_obj>>
    /\ UNCHANGED storevars

\* from now on every request to Daily.co is answered
NetworkRecovers ==
    /\ ~daily.reachable
    /\ daily' = [daily EXCEPT !.reachable = TRUE]
    /\ UNCHANGED <<webvtt_content, parsed, transcript_obj>>
    /\ UNCHANGED storevars

LiveNext ==
    \/ \E iv \in Interviews : ReconcileStart(iv)
    \/ \E iv \in Interviews : ProviderAnswers(iv)
    \/ \E iv \in Interviews : Return(iv)
    \/ ProviderFinishes
    \/ NetworkRecovers

\* reconcile is called again and again, every call gets its answer and returns (the requests
\* have timeouts), Daily.co finishes the transcript and its requests end up succeeding
SpecLive ==
    /\ LiveInit
    /\ [][LiveNext]_vars
    /\ \A iv \in Interviews :
          /\ WF_vars(ReconcileStart(iv))
          /\ WF_vars(ProviderAnswers(iv))
          /\ WF_vars(Return(iv))
    /\ WF_vars(ProviderFinishes)
    /\ WF_vars(NetworkRecovers)

\* ------------------------------------------------------------------ claims
\* the stored row of an interview's room, and the fields the claims speak of
Stored(t, iv) == get_transcript_by_room_name(t, RoomName(iv))
HasRawCaptions(row) == row.transcript_webvtt # None
Segments(row) == IF row.transcript_data = None THEN <<>> ELSE Get(row.transcript_data).segments
\* the last call was a reconcile that went to the provider / a save with segments
Reconciled == last.op = "reconcile" /\ last.fetch.kind # "skipped"
Saved == last.op = "save" /\ Get(last.request).segments # <<>>

\* C1: a client submission with segments that finds a completed row holding raw captions
\* leaves the table unchanged and returns that row.
C1_ProviderRecordKept ==
    (/\ Saved
     /\ last.existing # None
     /\ Get(last.existing).status = "completed"
     /\ HasRawCaptions(Get(last.existing)))
    => (table = last.before /\ last.out = Ok(Get(last.existing)))

\* C2: the table never holds two rows for the same interview_id.
C2_OneRecordPerInterview ==
    \A iv \in Interviews : Cardinality({i \in DOMAIN table : table[i].interview_id = iv}) <= 1

\* C3: a reconcile that fetched from the provider and wrote had observed the row an earlier
\* reconcile left for the room (a pending row, or one holding raw captions): two racing calls
\* never both fetch and write.
C3_SecondObservesFirst ==
    (/\ Reconciled
     /\ last.fetch.kind # "error"
     /\ Stored(last.before, last.iv) # None
     /\ \/ Get(Stored(last.before, last.iv)).status = "pending"
        \/ HasRawCaptions(Get(Stored(last.before, last.iv))))
    => last.existing = Stored(last.before, last.iv)

\* C4: a row that is completed before a call's write is still completed after it.
C4_CompletedStaysCompleted ==
    \A i \in DOMAIN last.before :
        last.before[i].status = "completed" => table[i].status = "completed"

\* C5: a reconcile that returns without consulting the provider found a completed row whose
\* text came from the provider (non-empty text and raw captions).
C5_ShortCircuitOnlyProviderSourced ==
    (last.op = "reconcile" /\ last.fetch.kind = "skipped")
    => (/\ Get(last.existing).status = "completed"
        /\ Get(last.existing).transcript_text # <<>>
        /\ HasRawCaptions(Get(last.existing)))

\* C6: once a reconcile has returned a completed row, a reconcile called afterwards with the
\* provider unchanged returns that same row, field for field, and changes nothing. The later
\* call taken here is one that returns at line 418, before the provider is asked anything, so
\* it is the same call whatever the provider holds, the unchanged state included.
C6_ReconcileIdempotent ==
    (last.op = "reconcile" /\ last.fetch.kind = "skipped" /\ last.first # None)
    => (last.out = Ok(Get(last.first)) /\ table = last.before)

\* C7: a client submission with segments that finds a row that is not (completed with raw
\* captions) overwrites its text, segments and status with the submitted data.
C7_ClientOverwrites ==
    (/\ Saved
     /\ last.existing # None
     /\ ~(Get(last.existing).status = "completed" /\ HasRawCaptions(Get(last.existing))))
    => LET row == RowById(table, Get(last.existing).id)
           request == Get(last.request)
       IN  /\ row.transcript_text = ClientLines(request.segments)
           /\ Segments(row) = request.segments
           /\ row.status = "completed"

\* C8: when the provider has nothing ready, reconcile returns, and the table holds, a pending
\* row with empty text: a new row if the room had none, the same row otherwise.
C8_PendingWhenNotReady ==
    (Reconciled /\ NotAvailable(last.fetch))
    => /\ last.out.kind = "ok"
       /\ last.out.rec.status = "pending"
       /\ last.out.rec.transcript_text = <<>>
       /\ \E i \in DOMAIN table :
            /\ table[i].id = last.out.rec.id
            /\ table[i].status = "pending"
            /\ table[i].transcript_text = <<>>
       /\ IF last.existing = None
          THEN Len(table) = Len(last.before) + 1 /\ last.out.rec.id = Len(table)
          ELSE Len(table) = Len(last.before) /\ last.out.rec.id = Get(last.existing).id

\* C9: when the provider returns caption text raw and the row reconcile read was absent or not
\* completed, reconcile stores and returns a completed row made of raw and what the parsers
\* and the metadata extractor give for it, with started_at and ended_at unset.
C9_CompletedFromCaptions ==
    (/\ Reconciled
     /\ last.fetch.kind = "content"
     /\ ~IsEmptyString(last.fetch.vtt))
    => /\ last.out.kind = "ok"
       /\ \E i \in DOMAIN table : table[i] = last.out.rec
       /\ LET row == last.out.rec
              raw == last.fetch.vtt
          IN  /\ row.status = "completed"
              /\ row.transcript_webvtt = Some(raw)
              /\ row.transcript_text = parse_webvtt_to_text(raw)
              /\ Segments(row) = parse_webvtt_to_segments(raw)
              /\ row.duration_seconds = extract_webvtt_metadata(raw).duration_seconds
              /\ row.participant_count = extract_webvtt_metadata(raw).participant_count
              /\ row.started_at = None
              /\ row.ended_at = None

\* C10 as stated: whenever a provider request of a reconcile fails with a transient error, the
\* room lookup included, the call fails and its write step leaves the table as it was.
C10_AnyTransientErrorSurfaces ==
    (Reconciled /\ (last.fetch.kind = "error" \/ last.fetch.room = "error"))
    => (last.out.kind = "error" /\ table = last.before)

\* C10 amended: whenever the transcript list, access link or caption download request of a
\* reconcile fails with an error other than 404, the call fails and leaves the table as it was.
C10_FetchErrorSurfaces ==
    (Reconciled /\ last.fetch.kind = "error")
    => (last.out.kind = "error" /\ table = last.before)

\* a reconcile for a room that already has a row just failed on a provider error
C10_Witness ==
    /\ Reconciled
    /\ last.fetch.kind = "error"
    /\ last.existing # None
    /\ last.out.kind = "error"

\* C11: when the provider returns the text of a finished, available caption file and that text
\* parses to no segment, reconcile returns and stores a row with status failed.
C11_UnusableCaptionsFail ==
    (/\ Reconciled
     /\ last.fetch.kind = "content"
     /\ ~IsEmptyString(last.fetch.vtt)
     /\ parse_webvtt_to_segments(last.fetch.vtt) = <<>>)
    => /\ last.out.kind = "ok"
       /\ last.out.rec.status = "failed"
       /\ RowById(table, last.out.rec.id).status = "failed"

\* the status changes the state machine of the specification allows
AllowedStatusSteps ==
    {<<"pending", "processing">>, <<"processing", "completed">>, <<"processing", "failed">>}

\* C12: a call changes the status of a row only along pending -> processing -> completed or
\* processing -> failed.
C12_StatusFollowsStateMachine ==
    \A i \in DOMAIN last.before :
        table[i].status # last.before[i].status
            => <<last.before[i].status, table[i].status>> \in AllowedStatusSteps

\* C13: a client submission whose segment list is empty or missing is answered with an error
\* and leaves the table as it was.
C13_EmptySubmissionRejected ==
    (last.op = "save" /\ Get(last.request).segments = <<>>)
    => (last.out.kind = "error" /\ table = last.before)

\* an empty submission was just refused although a row existed that it could have overwritten
C13_Witness ==
    /\ last.op = "save"
    /\ Get(last.request).segments = <<>>
    /\ last.existing # None
    /\ Get(last.existing).status = "pending"
    /\ last.out = Err(400)

\* C14: a client submission with segments for an interview without a row appends exactly one
\* row: completed, text and segments those of the submission, no raw captions.
C14_FirstSubmissionCreates ==
    (Saved /\ last.existing = None)
    => /\ Len(table) = Len(last.before) + 1
       /\ SubSeq(table, 1, Len(last.before)) = last.before
       /\ LET row == table[Len(table)]
              request == Get(last.request)
          IN  /\ last.out = Ok(row)
              /\ row.interview_id = last.iv
              /\ row.status = "completed"
              /\ row.transcript_text = ClientLines(request.segments)
              /\ Segments(row) = request.segments
              /\ ~HasRawCaptions(row)

\* a submission with two speakers just created the first row of its interview
C14_Witness ==
    /\ Saved
    /\ last.existing = None
    /\ Len(Get(last.request).segments) = 2
    /\ Len(table) = 1
    /\ table[1].status = "completed"

\* the entries of the list that the loop takes as the room's and that are finished with
\* their caption file available
ReadyMatches ==
    {n \in DOMAIN daily.transcripts_list :
        /\ Matched(daily.transcripts_list[n], daily.room_id, LocatedRoom)
        /\ daily.transcripts_list[n].status = "t_finished"
        /\ daily.transcripts_list[n].is_vtt_available}

\* C15: if the list holds an entry of the room that is finished with its caption file
\* available, the locator chooses such an entry, wherever it stands in the list.
C15_FinishedEntryPreferred ==
    (transcript_obj.called /\ ReadyMatches # {})
    => /\ transcript_obj.obj # None
       /\ \E n \in ReadyMatches : Get(transcript_obj.obj) = daily.transcripts_list[n]

\* the locator chose the ready entry that stands last, after two entries of the room that
\* are not ready
C15_Witness ==
    /\ transcript_obj.called
    /\ Len(daily.transcripts_list) = 3
    /\ ReadyMatches = {3}
    /\ \A n \in {1, 2} : Matched(daily.transcripts_list[n], daily.room_id, LocatedRoom)
    /\ transcript_obj.obj = Some(daily.transcripts_list[3])

\* C16 as stated: when a request of a reconcile is answered 404, the room lookup included, and
\* no request fails otherwise, the fetch returns nothing and reconcile returns a pending row.
C16_AnyNotFoundIsPending ==
    (/\ Reconciled
     /\ last.fetch.kind # "error"
     /\ (last.fetch.notfound \/ last.fetch.room = "404"))
    => /\ last.fetch.kind = "none"
       /\ last.out.kind = "ok"
       /\ last.out.rec.status = "pending"

\* C16 amended: a 404 answer to the transcript list, access link or caption download request
\* ends the fetch with nothing, and reconcile returns and stores a pending row; a 404 answer
\* to the room lookup alone brings no error to the caller.
C16_NotFoundIsPending ==
    /\ (Reconciled /\ last.fetch.notfound)
       => /\ last.out.kind = "ok"
          /\ last.out.rec.status = "pending"
          /\ RowById(table, last.out.rec.id).status = "pending"
    /\ (Reconciled /\ last.fetch.room = "404" /\ last.fetch.kind # "error")
       => last.out.kind = "ok"

\* the caption download of a reconcile for a room with a row was just answered 404
C16_Witness ==
    /\ Reconciled
    /\ last.fetch.notfound
    /\ last.fetch.calls = <<"list", "room", "access", "download">>
    /\ last.existing # None
    /\ last.out.kind = "ok"
    /\ last.out.rec.status = "pending"

\* C17: a download never answers with an empty file: the captions of a row that holds none and
\* the plain text of a row whose text is empty are refused with an error.
C17_NoEmptyDownload ==
    last.op = "download"
    => LET format == Get(last.request).format IN
       /\ (format = "txt" /\ last.out.kind = "ok") => last.out.content # <<>>
       /\ (format = "vtt" /\ last.out.kind = "ok")
             => (last.out.content # <<>> /\ ~IsEmptyString(last.out.content))
       /\ (format = "vtt" /\ last.existing # None /\ ~HasRawCaptions(Get(last.existing)))
             => last.out.kind = "error"
       /\ (format = "txt" /\ last.existing # None /\ Get(last.existing).transcript_text = <<>>)
             => last.out.kind = "error"

\* the captions of a row completed by a client submission were just asked for and refused
C17_Witness ==
    /\ last.op = "download"
    /\ Get(last.request).format = "vtt"
    /\ last.existing # None
    /\ Get(last.existing).status = "completed"
    /\ Get(last.existing).transcript_text # <<>>
    /\ ~HasRawCaptions(Get(last.existing))
    /\ last.out = Err(404)

\* C18: with calls made one after another, no call changes or clears the raw captions of a
\* row that holds some.
C18_RawCaptionsSetOnce ==
    \A i \in DOMAIN last.before :
        HasRawCaptions(last.before[i])
            => table[i].transcript_webvtt = last.before[i].transcript_webvtt

\* a client submission just rewrote the text of a row that holds raw captions
C18_Witness ==
    /\ Saved
    /\ last.existing # None
    /\ HasRawCaptions(Get(last.existing))
    /\ table # last.before
    /\ RowById(table, Get(last.existing).id).transcript_text # Get(last.existing).transcript_text
    /\ RowById(table, Get(last.existing).id).transcript_webvtt = Get(last.existing).transcript_webvtt

\* C19: no line of the plain text parse_webvtt_to_text returns is a cue-timing line (or any
\* line that begins with a time) or the header token.
C19_NoTimingNoHeaderInText ==
    parsed.fn = "parse_webvtt_to_text"
    => \A i \in DOMAIN parsed.out :
          parsed.out[i].k \notin {"timing", "stamp"} /\ parsed.out[i] # HeaderLine

\* the timing lines of the caption text that are followed by a line of content: a line that
\* is not blank and does not begin with a time
CuesWithContent ==
    {i \in DOMAIN webvtt_content :
        /\ webvtt_content[i].k = "timing"
        /\ i < Len(webvtt_content)
        /\ ~IsBlankLine(webvtt_content[i + 1])
        /\ webvtt_content[i + 1].k \notin {"timing", "stamp"}}

Cues == Timestamps(webvtt_content)

\* whole seconds of a time span given in milliseconds
WholeSeconds(ms) == IF ms >= 0 THEN ms \div 1000 ELSE -((-ms) \div 1000)

\* C21: for a caption text with a cue, duration_seconds is the end of the last cue in file
\* order minus the start of the first, in whole seconds.
C21_DurationFirstToLast ==
    (parsed.fn = "extract_webvtt_metadata" /\ Cues # <<>>)
    => parsed.out.duration_seconds = Some(WholeSeconds(Cues[Len(Cues)].e - Cues[1].s))

\* the speaker labels of the caption text, kind and number, letter case folded
NormalizedLabels ==
    {<<LowerWord(LabelWord(webvtt_content[i].label)), LabelNum(webvtt_content[i].label)>> :
        i \in {n \in DOMAIN webvtt_content :
                 webvtt_content[n].k = "text" /\ webvtt_content[n].label \in SpeakerLabels}}

\* C22: participant_count is the number of distinct speaker labels, kind and number, letter
\* case folded; the key is absent when the text has no label.
C22_ParticipantsAreDistinctLabels ==
    parsed.fn = "extract_webvtt_metadata"
    => parsed.out.participant_count =
          (IF NormalizedLabels = {} THEN None ELSE Some(Cardinality(NormalizedLabels)))

\* a caption text of a header and blank lines only
HeaderOnly ==
    /\ \E i \in DOMAIN webvtt_content : webvtt_content[i] = HeaderLine
    /\ \A i \in DOMAIN webvtt_content :
          webvtt_content[i] = HeaderLine \/ IsBlankLine(webvtt_content[i])

\* C23: an empty or whitespace-only caption text gives the empty text, no segment and a
\* metadata dictionary without keys; a header-only text gives the empty text and no segment.
C23_BlankCaptionsGiveNothing ==
    /\ (IsBlankDoc(webvtt_content) /\ parsed.fn \in {"parse_webvtt_to_text", "parse_webvtt_to_segments"})
          => parsed.out = <<>>
    /\ (IsBlankDoc(webvtt_content) /\ parsed.fn = "extract_webvtt_metadata")
          => parsed.out = [duration_seconds |-> None, participant_count |-> None]
    /\ (HeaderOnly /\ parsed.fn \in {"parse_webvtt_to_text", "parse_webvtt_to_segments"})
          => parsed.out = <<>>

\* the metadata of a whitespace-only caption text were just extracted: no key
C23_Witness ==
    /\ webvtt_content = <<SpaceLine, EmptyLine>>
    /\ parsed.fn = "extract_webvtt_metadata"
    /\ parsed.out.duration_seconds = None
    /\ parsed.out.participant_count = None

\* the ready entries whose room_id is the id the provider assigned to the room
ReadyByRoomId ==
    {n \in ReadyMatches :
        daily.room_id # NoId /\ daily.transcripts_list[n].room_id = daily.room_id}

\* the ready entries of the room by their session id only
ReadyBySessionOnly ==
    {n \in ReadyMatches :
        /\ daily.transcripts_list[n].room_id # daily.room_id
        /\ daily.transcripts_list[n].room_id # LocatedRoom}

\* C28: when the list holds a ready entry with the room's provider-assigned id and a ready
\* entry that matches by its session id only, the locator returns one with the room's id,
\* whatever the order of the list.
C28_RoomIdMatchPreferred ==
    (transcript_obj.called /\ ReadyByRoomId # {} /\ ReadyBySessionOnly # {})
    => /\ transcript_obj.obj # None
       /\ \E n \in ReadyByRoomId : Get(transcript_obj.obj) = daily.transcripts_list[n]

\* the last call was a reconcile that found a row and was told the provider has nothing yet
FoundAndNotReady == Reconciled /\ last.existing # None /\ NotAvailable(last.fetch)

MatchesOfRoom ==
    {n \in DOMAIN daily.transcripts_list :
        Matched(daily.transcripts_list[n], daily.room_id, LocatedRoom)}

\* the last call was a reconcile whose transcript list request was answered with the list
ListAnswered ==
    /\ Reconciled
    /\ ~(last.fetch.calls = <<"list">> /\ (last.fetch.kind = "error" \/ last.fetch.notfound))

C27_EveryStepErrorPropagates ==
    (Reconciled /\ (last.fetch.kind = "error" \/ last.fetch.room = "error"))
    => last.out.kind = "error"

\* C27 amended: an error other than 404 at the transcript list, access link or caption
\* download request fails the call; an error at the room lookup alone fails nothing, the call
\* returns a pending or a completed row.
C27_ListAccessDownloadErrorsPropagate ==
    /\ \A step \in {"list", "access", "download"} :
          (/\ Reconciled
           /\ last.fetch.kind = "error"
           /\ last.fetch.calls[Len(last.fetch.calls)] = step)
          => last.out.kind = "error"
    /\ (Reconciled /\ last.fetch.room = "error" /\ last.fetch.kind # "error")
       => /\ last.out.kind = "ok"
          /\ last.out.rec.status \in {"pending", "completed"}

\* the caption download of a reconcile just failed after a room lookup that had failed too:
\* the call failed
C27_Witness ==
    /\ Reconciled
    /\ last.fetch.kind = "error"
    /\ last.fetch.room = "error"
    /\ last.fetch.calls = <<"list", "room", "access", "download">>
    /\ last.out.kind = "error"

\* C29: every completed row has a non-empty transcript_text.
C29_CompletedHasText ==
    \A i \in DOMAIN table : table[i].status = "completed" => table[i].transcript_text # <<>>

\* C30: the row a reconcile returns is, field for field, the row stored for the room when the
\* call returns.
C30_ReturnsStoredRow ==
    (last.op = "reconcile" /\ last.out.kind = "ok")
    => Stored(table, last.iv) = Some(last.out.rec)

\* the row of the room is completed
RecordCompleted ==
    /\ Stored(table, "a") # None
    /\ Get(Stored(table, "a")).status = "completed"

====
